---- MODULE Spec2Model ----
(***************************************************************************)
(* Model of the qiwi client library (src/qiwi/src/lib.rs, transport.rs,    *)
(* models.rs): the response envelope Rsp<T>, CallerWrapper::call, the      *)
(* single-call operations of Client and the payment_history stream, and of  *)
(* the PaymentHistory command of the command-line tool                     *)
(* (src/qiwi-cli/src/main.rs).                                             *)
(*                                                                         *)
(* Conventions.                                                            *)
(*  - Option<X> is a sequence: <<>> is None, <<x>> is Some(x).             *)
(*  - A Rust String produced by u64::to_string is a sequence of digit      *)
(*    characters (DecStr); opaque strings are TLA+ strings.                *)
(*  - A response text is either not JSON, or a JSON object described by    *)
(*    its errorCode member (absent, a string, a number, null) and by the   *)
(*    record of its other members.                                         *)
(*  - An anyhow::Error is a record [kind, msg]; msg is the sequence of the *)
(*    pieces the message is formatted from.                                *)
(***************************************************************************)
EXTENDS Integers, Sequences, FiniteSets, TLC

\* ------------------------------------------------------------------ bounds
\* Largest number of page requests one history iteration may issue.
MaxPages == 3
\* Largest number of single-call operations invoked in one behaviour.
MaxOps == 2
\* Largest number of Transport.call made by one client, all streams and
\* operations together, while several streams are interleaved.
MaxCalls == 4
\* Largest number of times the command-line loop calls payment_history.
MaxStreams == 3

\* --------------------------------------------------------------- constants
\* args.insert("rows", 50.to_string())
Rows == 50
\* TransferDirection::Qiwi => (99, ...)
QiwiProvider == 99
\* timestamp() * 1000
IdFactor == 1000

\* ----------------------------------------------------------------- options
None == <<>>
Some(x) == <<x>>
IsSome(o) == o # <<>>
Unwrap(o) == o[1]

\* ------------------------------------------------------- integer to string
Digit(d) == CASE d = 0 -> "0" [] d = 1 -> "1" [] d = 2 -> "2" [] d = 3 -> "3"
              [] d = 4 -> "4" [] d = 5 -> "5" [] d = 6 -> "6" [] d = 7 -> "7"
              [] d = 8 -> "8" [] d = 9 -> "9"

RECURSIVE DecStr(_)
\* u64::to_string: the decimal digits, most significant first, no sign, no
\* leading zero except for 0 itself.
DecStr(n) == IF n < 10 THEN <<Digit(n)>>
             ELSE Append(DecStr(n \div 10), Digit(n % 10))

\* ------------------------------------------------------------ JSON values
EcAbsent == [t |-> "absent", v |-> ""]
EcStr(s) == [t |-> "str", v |-> s]
EcNum(s) == [t |-> "num", v |-> s]
EcNull == [t |-> "null", v |-> ""]

\* The response types T the client decodes, by the function that decodes.
Types == {"ProfileInfo", "PaymentHistoryData", "CommissionInfoWrapper",
          "CommissionQuote", "TransferData"}

\* The members serde requires of a JSON object for it to be a T (members of
\* type Option<_> may be missing; unknown members are ignored).
Required(T) ==
    CASE T = "ProfileInfo" -> {"authInfo"}
      [] T = "PaymentHistoryData" -> {"data"}
      [] T = "CommissionInfoWrapper" -> {"commission"}
      [] T = "CommissionQuote" -> {"qwCommission"}
      [] T = "TransferData" -> {"transaction"}

\* The members of T that are Option<_>.
Optional(T) ==
    IF T = "PaymentHistoryData" THEN {"nextTxnId", "nextTxnDate"} ELSE {}

\* The value of type T read from the members of a JSON object: the required
\* members, the optional ones (None when missing), nothing else.
FromMembers(T, m) ==
    [f \in Required(T) \cup Optional(T) |->
        IF f \in DOMAIN m THEN m[f] ELSE None]

\* ----------------------------------------------------------------- errors
TransportError == [kind |-> "transport", msg |-> <<"transport failure">>]
DecodeError == [kind |-> "decode", msg |-> <<"data did not match any variant of untagged enum Rsp">>]
SyntaxError == [kind |-> "decode", msg |-> <<"expected value">>]

\* --------------------------------------------------------------- envelope
RspError(code) == [tag |-> "Error", error |-> code, v |-> None]
RspOK(v) == [tag |-> "OK", error |-> "", v |-> Some(v)]

Ok(v) == [ok |-> TRUE, v |-> Some(v), err |-> None]
Err(e) == [ok |-> FALSE, v |-> None, err |-> Some(e)]

\* Does the JSON object match the variant Error { errorCode: String }?
MatchesError(text) == text.ec.t = "str"

\* Does the JSON object match the variant OK(T)?
MatchesOK(T, text) == Required(T) \subseteq DOMAIN text.members

\* A plausible slip: the variants declared in the other order.
DecodeOKFirst(T, text) ==
    IF ~text.json THEN Err(SyntaxError)
    ELSE IF MatchesOK(T, text) THEN Ok(RspOK(FromMembers(T, text.members)))
    ELSE IF MatchesError(text) THEN Ok(RspError(text.ec.v))
    ELSE Err(DecodeError)

\* serde_json::from_str::<Rsp<T>>: an untagged enum, the variants are tried
\* in declaration order, Error first, and the first that matches wins.
Decode(T, text) ==
    IF ~text.json THEN Err(SyntaxError)
    ELSE IF MatchesError(text) THEN Ok(RspError(text.ec.v))
    ELSE IF MatchesOK(T, text) THEN Ok(RspOK(FromMembers(T, text.members)))
    ELSE Err(DecodeError)

\* A plausible slip: the remote code left out of the message.
IntoResultNoCode(rsp) ==
    IF rsp.tag = "Error"
    THEN Err([kind |-> "domain", msg |-> <<"qiwi error">>])
    ELSE Ok(Unwrap(rsp.v))

\* Rsp::into_result
IntoResult(rsp) ==
    IF rsp.tag = "Error"
    THEN Err([kind |-> "domain", msg |-> <<"qiwi error: ", rsp.error>>])
    ELSE Ok(Unwrap(rsp.v))

\* CallerWrapper::call, once the transport's future has completed with
\* `result` (Ok(text) or Err(transport error)): Ok(from_str(&c.await?)?).
\* Each ? passes an error on as it is.
CallerResult(T, result) ==
    IF result.ok THEN Decode(T, Unwrap(result.v)) ELSE result

\* call(..).await?.into_result(): what every operation does with a response.
Fetch(T, result) ==
    LET rsp == CallerResult(T, result)
    IN IF rsp.ok THEN IntoResult(Unwrap(rsp.v)) ELSE rsp

\* ---------------------------------------------------------- response texts
Obj(ec, members) == [json |-> TRUE, ec |-> ec, members |-> members]
NotJson == [json |-> FALSE, ec |-> EcAbsent, members |-> [raw |-> "<html>"]]
\* A JSON object that has none of the members any T requires.
Unrelated == [message |-> "hello"]

\* Remote error codes.
Codes == {"LIMIT_EXCEEDED", "auth.forbidden"}

\* ------------------------------------------------------- history pages
\* PaymentHistoryEntry, identified by its txnId.
DataChoices == {<<>>, <<2, 1>>, <<3>>}
DateOpts == {None, Some("2020-01-02T00:00:00"), Some("2020-01-01T00:00:00")}
IdOpts == {None, Some(5), Some(12)}

\* PaymentHistoryData as JSON members.
Pages == [data : DataChoices, nextTxnDate : DateOpts, nextTxnId : IdOpts]

\* What the transport's future may complete with for a history request.
HistoryResults ==
    {Err(TransportError)}
    \cup {Ok(NotJson), Ok(Obj(EcAbsent, Unrelated)), Ok(Obj(EcStr("LIMIT_EXCEEDED"), Unrelated))}
    \cup {Ok(Obj(EcAbsent, p)) : p \in Pages}

\* ------------------------------------------------------------------ state
Iters == {"a", "b"}

VARIABLES
    hpc,        \* per stream: "idle" (not created), "start" (created, never
                \* polled), "await" (suspended on the page fetch), "yield"
                \* (suspended after handing an entry over), "done", "dropped"
    next_txn,   \* per stream: the local next_txn, Option<[date, id]>
    history,    \* per stream: the entries of history.data not yet yielded
    requests,   \* per stream: the params of every Transport.call, in order
    served,     \* per stream: what each completed call returned, in order
    out,        \* per stream: the items the consumer received, in order
    dropped,    \* per stream: the consumer has dropped the stream
    now,        \* the wall clock, in milliseconds since the epoch
    opc,        \* the single-call operation: "idle", "await", "done"
    op,         \* its invocation [name, provider, id], and
    oreq,       \* the request it handed to Transport.call, and
    otime,      \* the clock when it was invoked
    ocalls,     \* the number of Transport.call it has made
    orsp,       \* what the transport's future completed with
    ores,       \* what the operation returned
    prev,       \* the [time, id, sent] of the transfers that have returned
    nops,       \* the number of operations invoked so far
    dtype,      \* the decoder under test: the type T of Rsp<T>,
    dtext,      \* the response text given to it, and
    dres,       \* Option of what serde_json::from_str returned for it
    cpc,        \* the PaymentHistory command: "off" (not run), "loop" (in
                \* the while-let scrutinee), "body" (entry printed), "exit"
                \* (returned Ok), "failed" (returned the error)
    hist,       \* the history the remote service holds: a chain of pages
    printed,    \* the entries the command has printed, in order
    cstreams    \* the number of payment_history calls the command has made

hvars == <<hpc, next_txn, history, requests, served, out, dropped>>
ovars == <<opc, op, oreq, otime, ocalls, orsp, ores, prev, nops>>
dvars == <<dtype, dtext, dres>>
cvars == <<cpc, hist, printed, cstreams>>
vars == <<hvars, ovars, now, dvars, cvars>>

Set(f, i, v) == [f EXCEPT ![i] = v]
Push(f, i, v) == [f EXCEPT ![i] = Append(@, v)]

\* ------------------------------------------------------- payment_history
\* A plausible slip: the id parameter left out.
BuildArgsDateOnly(cursor) ==
    IF IsSome(cursor)
    THEN [rows |-> DecStr(Rows), nextTxnDate |-> Unwrap(cursor).date]
    ELSE [rows |-> DecStr(Rows)]

\* The query parameters of one page request.
BuildArgs(cursor) ==
    IF IsSome(cursor)
    THEN [rows |-> DecStr(Rows),
          nextTxnDate |-> Unwrap(cursor).date,
          nextTxnId |-> DecStr(Unwrap(cursor).id)]
    ELSE [rows |-> DecStr(Rows)]

\* A plausible slip: if let Some(next_txn) = &next_txn, which leaves it set.
TakeKeeps(cursor) == cursor

\* What Option::take leaves behind.
Take(cursor) == None

\* next_txn after the two nested if-lets on the decoded page.
NextCursor(cur, page) ==
    IF IsSome(page.nextTxnDate)
    THEN IF IsSome(page.nextTxnId)
         THEN Some([date |-> Unwrap(page.nextTxnDate), id |-> Unwrap(page.nextTxnId)])
         ELSE cur
    ELSE cur

RECURSIVE Reverse(_)
Reverse(s) == IF s = <<>> THEN <<>> ELSE Append(Reverse(Tail(s)), Head(s))

\* A plausible slip: newest-last pages turned around before yielding.
PageEntriesReversed(page) == Reverse(page.data)

\* The entries the for loop walks, in its order.
PageEntries(page) == page.data

\* A plausible slip: one cursor variable shared by every stream of the client.
SetNextTxnShared(i, v) == [j \in Iters |-> v]

\* An assignment to the stream's own next_txn.
SetNextTxn(i, v) == Set(next_txn, i, v)

\* A plausible slip: a failed fetch starts the iteration over.
ErrorExitRetry == "start"

\* Where the generator goes after ? has yielded an error: it is finished.
ErrorExit == "done"

\* Client::payment_history: builds the stream; nothing runs until it is polled.
PaymentHistory(i) ==
    /\ hpc[i] = "idle"
    /\ hpc' = Set(hpc, i, "start")
    /\ UNCHANGED <<next_txn, history, requests, served, out, dropped>>
    /\ UNCHANGED <<ovars, now, dvars, cvars>>

\* The top of the loop body up to the suspended page fetch: the request is
\* built from the cursor, which take() clears, and handed to Transport.call.
Issue(i, cursor) ==
    /\ Len(requests[i]) < MaxPages
    /\ requests' = Push(requests, i, BuildArgs(cursor))
    /\ next_txn' = SetNextTxn(i, Take(cursor))
    /\ hpc' = Set(hpc, i, "await")

\* The generator from the for loop on, with `cursor` in next_txn and `buf`
\* the entries left: it yields the next entry, or leaves the loop, or goes
\* round to the next page fetch.
Continue(i, cursor, buf) ==
    IF buf # <<>>
    THEN /\ out' = Push(out, i, Ok(Head(buf)))
         /\ history' = Set(history, i, Tail(buf))
         /\ next_txn' = SetNextTxn(i, cursor)
         /\ hpc' = Set(hpc, i, "yield")
         /\ UNCHANGED requests
    ELSE IF ~IsSome(cursor)
    THEN /\ hpc' = Set(hpc, i, "done")
         /\ history' = Set(history, i, <<>>)
         /\ next_txn' = SetNextTxn(i, cursor)
         /\ UNCHANGED <<requests, out>>
    ELSE /\ Issue(i, cursor)
         /\ history' = Set(history, i, <<>>)
         /\ UNCHANGED out

\* The first poll of the stream: next_txn = None, then the first request.
PollStart(i) ==
    /\ hpc[i] = "start"
    /\ Issue(i, None)
    /\ UNCHANGED <<history, served, out, dropped>>
    /\ UNCHANGED <<ovars, now, dvars, cvars>>

\* A poll that finds the page fetch completed with `result`.
ReceiveResult(i, result) ==
    /\ hpc[i] = "await"
    /\ served' = Push(served, i, result)
    /\ LET r == Fetch("PaymentHistoryData", result) IN
         IF r.ok
         THEN Continue(i, NextCursor(next_txn[i], Unwrap(r.v)), PageEntries(Unwrap(r.v)))
         ELSE /\ out' = Push(out, i, r)
              /\ hpc' = Set(hpc, i, ErrorExit)
              /\ UNCHANGED <<next_txn, history, requests>>
    /\ UNCHANGED dropped
    /\ UNCHANGED <<ovars, now, dvars, cvars>>

Receive(i) == \E result \in HistoryResults : ReceiveResult(i, result)

\* A poll of the stream suspended at yield.
PollNext(i) ==
    /\ hpc[i] = "yield"
    /\ Continue(i, next_txn[i], history[i])
    /\ UNCHANGED <<served, dropped>>
    /\ UNCHANGED <<ovars, now, dvars, cvars>>

\* A plausible slip: the fetch loop runs detached from the stream's handle.
DropDetached(i) ==
    /\ hpc[i] \in {"start", "await", "yield"}
    /\ ~dropped[i]
    /\ dropped' = Set(dropped, i, TRUE)
    /\ UNCHANGED <<hpc, next_txn, history, requests, served, out>>
    /\ UNCHANGED <<ovars, now, dvars, cvars>>

\* The consumer drops the stream: the generator and the pending future it
\* owns are dropped with it and never polled again.
Drop(i) ==
    /\ hpc[i] \in {"start", "await", "yield"}
    /\ dropped' = Set(dropped, i, TRUE)
    /\ hpc' = Set(hpc, i, "dropped")
    /\ UNCHANGED <<next_txn, history, requests, served, out>>
    /\ UNCHANGED <<ovars, now, dvars, cvars>>

\* ------------------------------------------------- single-call operations
\* BigDecimal
Dec(digits, scale) == [digits |-> digits, scale |-> scale]

CommissionInfos == {[ranges |-> <<Dec(2, 2)>>, limits |-> <<>>],
                    [ranges |-> <<>>, limits |-> <<Dec(15000, 0)>>]}

\* The JSON members of a well-formed response of each type.
Bodies(T) ==
    CASE T = "ProfileInfo" -> {[authInfo |-> [personId |-> 7999]]}
      [] T = "PaymentHistoryData" -> Pages
      [] T = "CommissionInfoWrapper" -> {[commission |-> c] : c \in CommissionInfos}
      [] T = "CommissionQuote" -> {[qwCommission |-> [amount |-> Dec(1500, 2)]]}
      [] T = "TransferData" ->
            {[transaction |-> [id |-> "11", state |-> [code |-> "Accepted"]]]}

\* The type each operation asks CallerWrapper::call to decode.
TypeOf(name) ==
    CASE name = "profile_info" -> "ProfileInfo"
      [] name = "commission_info" -> "CommissionInfoWrapper"
      [] name = "commission_quote" -> "CommissionQuote"
      [] name = "transfer" -> "TransferData"

\* What the transport's future may complete with for an operation.
OpResults(name) ==
    {Err(TransportError), Ok(NotJson), Ok(Obj(EcAbsent, Unrelated))}
    \cup {Ok(Obj(EcStr(c), Unrelated)) : c \in Codes}
    \cup {Ok(Obj(EcAbsent, b)) : b \in Bodies(TypeOf(name))}

\* The instants the clock is read at: two in one second, one in the next.
Instants == {1000, 1999, 2000}

\* Utc::now().timestamp(): whole seconds since the epoch.
Timestamp(ms) == ms \div 1000

\* A plausible slip: timestamp_millis() in place of timestamp().
TransferIdMillis(id, ms) == IF IsSome(id) THEN Unwrap(id) ELSE ms * IdFactor

\* id.unwrap_or(u64::try_from(Utc::now().timestamp()).unwrap() * 1000).
\* The clock is never before the epoch and chrono's range keeps the product
\* far below 2^64, so neither the unwrap nor the multiplication can fail.
TransferId(id, ms) == IF IsSome(id) THEN Unwrap(id) ELSE Timestamp(ms) * IdFactor

\* The invocations: the arguments that reach the request's id and endpoint.
OpCalls ==
    {[name |-> "profile_info", provider |-> 0, id |-> None]}
    \cup {[name |-> "commission_info", provider |-> QiwiProvider, id |-> None]}
    \cup {[name |-> "commission_quote", provider |-> QiwiProvider, id |-> None]}
    \cup {[name |-> "transfer", provider |-> p, id |-> i] :
             p \in {QiwiProvider, 1}, i \in {None, Some(7), Some(1999000)}}

\* The endpoint, method and body of an operation's one request.
Request(c, ms) ==
    CASE c.name = "profile_info" ->
           [endpoint |-> <<"person-profile/v1/profile/current">>, method |-> "GET",
            body |-> None]
      [] c.name = "commission_info" ->
           [endpoint |-> <<"sinap/providers/">> \o DecStr(c.provider) \o <<"/form">>,
            method |-> "GET", body |-> None]
      [] c.name = "commission_quote" ->
           [endpoint |-> <<"sinap/providers/">> \o DecStr(c.provider) \o <<"/onlineCommission">>,
            method |-> "POST", body |-> Some([id |-> None])]
      [] c.name = "transfer" ->
           [endpoint |-> <<"sinap/api/v2/terms/">> \o DecStr(c.provider) \o <<"/payments">>,
            method |-> "POST",
            body |-> Some([id |-> Some(DecStr(TransferId(c.id, ms)))])]

\* What the operation makes of the decoded payload.
Project(name, payload) ==
    CASE name = "profile_info" -> payload
      [] name = "commission_info" -> payload.commission
      [] name = "commission_quote" -> payload.qwCommission.amount
      [] name = "transfer" -> payload

\* The value an operation returns once its call has completed with `result`.
OpReturn(name, result) ==
    LET r == Fetch(TypeOf(name), result)
    IN IF r.ok THEN Ok(Project(name, Unwrap(r.v))) ELSE r

\* A plausible slip: a failed call is issued again.
RetriesOnFailure(result) == ~result.ok

\* Does the operation issue its call again after `result`?  Never: every
\* operation is one call expression followed by ?, with no loop around it.
Retries(result) == FALSE

\* An operation is invoked: CallerWrapper::call hands the request to
\* Transport.call at once and returns the future the operation awaits.
Invoke(c) ==
    /\ opc = "idle"
    /\ nops < MaxOps
    /\ nops' = nops + 1
    /\ op' = c
    /\ otime' = now
    /\ oreq' = Request(c, now)
    /\ ocalls' = 1
    /\ opc' = "await"
    /\ UNCHANGED <<orsp, ores, prev, hvars, now, dvars, cvars>>

\* The awaited future completes and the operation returns.
Complete ==
    /\ opc = "await"
    /\ \E result \in OpResults(op.name) :
         /\ orsp' = result
         /\ IF Retries(result)
            THEN /\ ocalls' = ocalls + 1
                 /\ UNCHANGED <<opc, ores>>
            ELSE /\ ores' = OpReturn(op.name, result)
                 /\ opc' = "done"
                 /\ UNCHANGED ocalls
    /\ UNCHANGED <<op, oreq, otime, prev, nops, hvars, now, dvars, cvars>>

\* The caller takes the result; the client is ready for the next invocation.
Return ==
    /\ opc = "done"
    /\ opc' = "idle"
    /\ ocalls' = 0
    /\ prev' = IF op.name = "transfer"
               THEN prev \cup {[time |-> otime, id |-> op.id, sent |-> Unwrap(oreq.body).id]}
               ELSE prev
    /\ UNCHANGED <<op, oreq, otime, orsp, ores, nops, hvars, now, dvars, cvars>>

\* Time passes.
Tick ==
    /\ \E t \in Instants : t > now /\ now' = t
    /\ UNCHANGED <<hvars, ovars, dvars, cvars>>

\* -------------------------------------------------------- the decoder alone
\* The values an errorCode member may have.
EcValues == {EcAbsent, EcNull, EcNum("5")} \cup {EcStr(c) : c \in Codes}

\* The members a JSON object may have besides errorCode.
AllMembers == UNION {Bodies(T) : T \in Types} \cup {Unrelated}

\* The response texts the decoder is tried on.
AllTexts == {NotJson} \cup {Obj(ec, m) : ec \in EcValues, m \in AllMembers}

\* CallerWrapper::call decodes the text the transport returned.
DecodeText ==
    /\ dres = None
    /\ dres' = Some(Decode(dtype, dtext))
    /\ UNCHANGED <<dtype, dtext, hvars, ovars, now, cvars>>

\* The next response text arrives, for a call that expects some type.
NextText ==
    /\ dres # None
    /\ dres' = None
    /\ dtype' \in Types
    /\ dtext' \in AllTexts
    /\ UNCHANGED <<hvars, ovars, now, cvars>>

HInit ==
    /\ hpc = [i \in Iters |-> "idle"]
    /\ next_txn = [i \in Iters |-> None]
    /\ history = [i \in Iters |-> <<>>]
    /\ requests = [i \in Iters |-> <<>>]
    /\ served = [i \in Iters |-> <<>>]
    /\ out = [i \in Iters |-> <<>>]
    /\ dropped = [i \in Iters |-> FALSE]

OInit ==
    /\ opc = "idle"
    /\ op = [name |-> "profile_info", provider |-> 0, id |-> None]
    /\ oreq = Request(op, 1000)
    /\ otime = 1000
    /\ ocalls = 0
    /\ orsp = Err(TransportError)
    /\ ores = Err(TransportError)
    /\ prev = {}
    /\ nops = 0

DInit ==
    /\ dtype = "ProfileInfo"
    /\ dtext = NotJson
    /\ dres = None

\* The command-line tool is not run.
CInit ==
    /\ cpc = "off"
    /\ hist = <<>>
    /\ printed = <<>>
    /\ cstreams = 0

Init == HInit /\ OInit /\ DInit /\ CInit /\ now = 1000

\* One history stream and its consumer.
Next ==
    \/ PaymentHistory("a")
    \/ PollStart("a")
    \/ Receive("a")
    \/ PollNext("a")
    \/ Drop("a")

Spec == Init /\ [][Next]_vars

\* The single-call operations, one after another, while time passes.
NextOps ==
    \/ \E c \in OpCalls : Invoke(c)
    \/ Complete
    \/ Return
    \/ Tick

SpecOps == Init /\ [][NextOps]_vars

\* The decoder on every text, for every type.
InitDecode ==
    /\ HInit /\ OInit /\ CInit /\ now = 1000
    /\ dtype \in Types
    /\ dtext \in AllTexts
    /\ dres = None

NextDecode == DecodeText \/ NextText

SpecDecode == InitDecode /\ [][NextDecode]_vars

\* ------------------------------------------------ several streams at once
\* The pages and failures served while several streams are interleaved.
ClientPages ==
    {p \in Pages : /\ p.data = <<3>>
                   /\ <<p.nextTxnDate, p.nextTxnId>> \in
                        {<<None, None>>,
                         <<Some("2020-01-02T00:00:00"), Some(5)>>,
                         <<Some("2020-01-01T00:00:00"), Some(12)>>}}

ClientResults ==
    {Ok(Obj(EcStr("LIMIT_EXCEEDED"), Unrelated))}
    \cup {Ok(Obj(EcAbsent, p)) : p \in ClientPages}

ClientCalls == {c \in OpCalls : c.provider # 1 /\ c.id = None}

\* The number of Transport.call the client has made.
TotalCalls == Len(requests["a"]) + Len(requests["b"]) + nops

\* Two history streams of one client, their consumers, and the single-call
\* operations, interleaved in any order.
NextClient ==
    \/ \E i \in Iters : PaymentHistory(i)
    \/ \E i \in Iters : TotalCalls < MaxCalls /\ PollStart(i)
    \/ \E i \in Iters : \E result \in ClientResults :
          ReceiveResult(i, result) /\ TotalCalls' <= MaxCalls
    \/ \E i \in Iters : PollNext(i) /\ TotalCalls' <= MaxCalls
    \/ \E i \in Iters : Drop(i)
    \/ \E c \in ClientCalls : TotalCalls < MaxCalls /\ Invoke(c)
    \/ Complete
    \/ Return

SpecClient == Init /\ [][NextClient]_vars

\* ------------------------------------------- the PaymentHistory command
\* The cursor the remote service puts on page k of a history.
ChainCursor(k) ==
    CASE k = 1 -> [date |-> "2020-01-02T00:00:00", id |-> 5]
      [] k = 2 -> [date |-> "2020-01-01T00:00:00", id |-> 12]
      [] k = 3 -> [date |-> "2020-01-02T00:00:00", id |-> 12]
      [] k = 4 -> [date |-> "2020-01-01T00:00:00", id |-> 5]

\* The finite histories: 1..MaxPages pages, every page but the last with
\* its cursor, the last without.
Histories ==
    UNION {{h \in [1..n -> Pages] :
              \A k \in 1..n :
                 IF k < n
                 THEN /\ h[k].nextTxnDate = Some(ChainCursor(k).date)
                      /\ h[k].nextTxnId = Some(ChainCursor(k).id)
                 ELSE /\ h[k].nextTxnDate = None
                      /\ h[k].nextTxnId = None}
           : n \in 1..MaxPages}

\* The page of history h the remote service returns for a request: the
\* first for a request without cursor, else the one after the page whose
\* cursor the request carries.
ServerPage(h, args) ==
    IF "nextTxnId" \notin DOMAIN args THEN h[1]
    ELSE LET k == CHOOSE k \in 1..(Len(h) - 1) :
                     /\ args.nextTxnDate = ChainCursor(k).date
                     /\ args.nextTxnId = DecStr(ChainCursor(k).id)
         IN h[k + 1]

\* What the transport's future may complete with for the command's request.
CliResults(h, args) == {Ok(Obj(EcAbsent, ServerPage(h, args))), Err(TransportError)}

\* The while-let scrutinee is evaluated: client.payment_history() builds a
\* new stream, on which next() will be called; the stream of the round
\* before, a temporary, is gone.
CliCall ==
    /\ \/ cpc = "loop" /\ hpc["a"] = "idle"
       \/ cpc = "body" /\ hpc["a"] = "dropped"
    /\ cstreams < MaxStreams
    /\ cstreams' = cstreams + 1
    /\ cpc' = "loop"
    /\ hpc' = Set(hpc, "a", "start")
    /\ next_txn' = Set(next_txn, "a", None)
    /\ history' = Set(history, "a", <<>>)
    /\ requests' = Set(requests, "a", <<>>)
    /\ served' = Set(served, "a", <<>>)
    /\ out' = Set(out, "a", <<>>)
    /\ dropped' = Set(dropped, "a", FALSE)
    /\ UNCHANGED <<hist, printed, ovars, now, dvars>>

\* next().await polls the new stream for the first time.
CliPollStart == cpc = "loop" /\ PollStart("a")

\* next().await finds the page fetch completed.
CliReceive ==
    /\ cpc = "loop"
    /\ hpc["a"] = "await"
    /\ \E result \in CliResults(hist, requests["a"][Len(requests["a"])]) :
         ReceiveResult("a", result)

\* next() returned Some(Ok(entry)): the body prints the entry.
CliPrint ==
    /\ cpc = "loop"
    /\ hpc["a"] = "yield"
    /\ printed' = Append(printed, Unwrap(out["a"][Len(out["a"])].v))
    /\ cpc' = "body"
    /\ UNCHANGED <<hist, cstreams, hvars, ovars, now, dvars>>

\* The end of the round: the temporary stream is dropped.
CliDrop == cpc = "body" /\ Drop("a")

\* next() returned None: the loop ends and main returns Ok(()).
CliEnd ==
    /\ cpc = "loop"
    /\ hpc["a"] = "done"
    /\ out["a"] = <<>>
    /\ cpc' = "exit"
    /\ UNCHANGED <<hist, printed, cstreams, hvars, ovars, now, dvars>>

\* next() returned Some(Err(e)): transpose()? returns the error from main.
CliError ==
    /\ cpc = "loop"
    /\ hpc["a"] = "done"
    /\ out["a"] # <<>>
    /\ ~out["a"][Len(out["a"])].ok
    /\ cpc' = "failed"
    /\ UNCHANGED <<hist, printed, cstreams, hvars, ovars, now, dvars>>

\* The command is run against a remote service that holds some history.
InitCli ==
    /\ HInit /\ OInit /\ DInit /\ now = 1000
    /\ cpc = "loop"
    /\ hist \in Histories
    /\ printed = <<>>
    /\ cstreams = 0

NextCli ==
    \/ CliCall
    \/ CliPollStart
    \/ CliReceive
    \/ CliPrint
    \/ CliDrop
    \/ CliEnd
    \/ CliError

SpecCli == InitCli /\ [][NextCli]_vars

\* ============================================================== properties
\* A served result that is a well-formed history page, and the page.
IsPage(r) ==
    /\ r.ok
    /\ Unwrap(r.v).json
    /\ Unwrap(r.v).ec.t = "absent"
    /\ Unwrap(r.v).members \in Pages
PageOf(r) == Unwrap(r.v).members

Both(p) == IsSome(p.nextTxnDate) /\ IsSome(p.nextTxnId)
Neither(p) == ~IsSome(p.nextTxnDate) /\ ~IsSome(p.nextTxnId)
ExactlyOne(p) == ~Both(p) /\ ~Neither(p)

RECURSIVE Entries(_)
\* The entries of a sequence of served pages, page after page.
Entries(rs) ==
    IF rs = <<>> THEN <<>> ELSE PageOf(Head(rs)).data \o Entries(Tail(rs))

\* The stream items that carry the given entries.
Items(es) == [k \in 1..Len(es) |-> Ok(es[k])]

\* Every served result is a page, all but the last carry both cursor fields,
\* the last carries neither.
CursorChain(rs) ==
    /\ rs # <<>>
    /\ \A n \in 1..Len(rs) :
         /\ IsPage(rs[n])
         /\ (n < Len(rs) => Both(PageOf(rs[n])))
         /\ (n = Len(rs) => Neither(PageOf(rs[n])))

\* The decimal text of the transaction ids the pages carry.
IdText(id) == CASE id = 5 -> <<"5">> [] id = 12 -> <<"1", "2">>

\* Request n of a stream follows the cursor of the page served to request n-1.
FollowsCursor(i, n) ==
    LET req == requests[i][n] IN
    /\ req.rows = <<"5", "0">>
    /\ (n = 1 => DOMAIN req = {"rows"})
    /\ (n > 1 =>
          /\ IsPage(served[i][n - 1])
          /\ Both(PageOf(served[i][n - 1]))
          /\ DOMAIN req = {"rows", "nextTxnDate", "nextTxnId"}
          /\ req.nextTxnDate = Unwrap(PageOf(served[i][n - 1]).nextTxnDate)
          /\ req.nextTxnId = IdText(Unwrap(PageOf(served[i][n - 1]).nextTxnId)))

\* C1: when the pages served to a stream form a cursor chain that ends with a
\* cursor-less page, the stream has issued exactly one request per page, what
\* it has yielded followed by what it still holds is the concatenation of the
\* pages' entries in order, and once it has ended it has yielded all of them.
C1_Concatenation ==
    CursorChain(served["a"]) =>
        /\ Len(requests["a"]) = Len(served["a"])
        /\ out["a"] \o Items(history["a"]) = Items(Entries(served["a"]))
        /\ hpc["a"] \in {"yield", "done", "dropped"}
        /\ (hpc["a"] = "done" => out["a"] = Items(Entries(served["a"])))

C1_Witness ==
    /\ hpc["a"] = "done"
    /\ CursorChain(served["a"])
    /\ Len(served["a"]) = 3
    /\ out["a"] = Items(<<2, 1, 3, 2, 1>>)

\* C2: every request of a stream carries rows=50; the first carries nothing
\* else; request n+1 carries exactly the date and the decimal id of the cursor
\* returned by page n.
C2_CursorForwarded ==
    \A n \in 1..Len(requests["a"]) : FollowsCursor("a", n)

C2_Witness ==
    /\ Len(requests["a"]) = 3
    /\ requests["a"][2].nextTxnId = <<"1", "2">>
    /\ requests["a"][3].nextTxnId = <<"5">>
    /\ requests["a"][2].nextTxnDate # requests["a"][3].nextTxnDate

\* C3 as stated: every JSON object that has an errorCode member, whatever its
\* value, decodes to the Error variant.
C3_AnyErrorCode ==
    (dres # None /\ dtext.json /\ dtext.ec.t # "absent") =>
        /\ Unwrap(dres).ok
        /\ Unwrap(Unwrap(dres).v).tag = "Error"

\* C3, amended: a JSON object whose errorCode member is a string decodes to
\* the Error variant carrying that string, whatever its other members, and
\* never to OK; a JSON object without errorCode that has T's shape decodes to
\* OK carrying its members.
C3_StringErrorCode ==
    dres # None =>
        /\ (dtext.json /\ dtext.ec.t = "str" =>
              /\ Unwrap(dres) = Ok(RspError(dtext.ec.v))
              /\ Unwrap(Unwrap(dres).v).tag # "OK")
        /\ (dtext.json /\ dtext.ec.t = "absent" /\ dtext.members \in Bodies(dtype) =>
              /\ Unwrap(dres).ok
              /\ Unwrap(Unwrap(dres).v).tag = "OK"
              /\ Unwrap(Unwrap(dres).v).v = Some(dtext.members))

C3_Witness ==
    /\ dres # None
    /\ dtext.json
    /\ dtext.ec = EcStr("LIMIT_EXCEEDED")
    /\ dtype = "PaymentHistoryData"
    /\ dtext.members \in Pages
    /\ Unwrap(Unwrap(dres).v).tag = "Error"

\* The text {"errorCode": C} and nothing else worth decoding.
IsErrorText(r) ==
    /\ r.ok
    /\ Unwrap(r.v).json
    /\ Unwrap(r.v).ec.t = "str"
    /\ Unwrap(r.v).members = Unrelated
CodeOf(r) == Unwrap(r.v).ec.v

\* A failure that is a domain error whose message contains the code.
IsDomainError(res, code) ==
    /\ ~res.ok
    /\ Unwrap(res.err).kind = "domain"
    /\ \E k \in 1..Len(Unwrap(res.err).msg) : Unwrap(res.err).msg[k] = code

\* A text that decodes to the success variant for the operation.
IsSuccessText(name, r) ==
    /\ r.ok
    /\ Unwrap(r.v).json
    /\ Unwrap(r.v).ec.t = "absent"
    /\ Unwrap(r.v).members \in Bodies(TypeOf(name))

\* What a page fetch of a stream does with the last served result.
PageFetchPropagates(i) ==
    LET last == served[i][Len(served[i])] IN
    served[i] # <<>> =>
        /\ (IsErrorText(last) =>
              /\ out[i] # <<>>
              /\ IsDomainError(out[i][Len(out[i])], CodeOf(last)))
        /\ (IsPage(last) =>
              \E k \in 0..Len(out[i]) :
                 SubSeq(out[i], k + 1, Len(out[i])) \o Items(history[i])
                    = Items(PageOf(last).data))

\* C4 as stated: an errorCode text makes the operation fail with a domain
\* error that contains the code, and a success text makes every operation
\* return the decoded payload itself.
C4_PayloadItself ==
    /\ opc = "done" =>
         /\ (IsErrorText(orsp) => IsDomainError(ores, CodeOf(orsp)))
         /\ (IsSuccessText(op.name, orsp) => ores = Ok(Unwrap(orsp.v).members))
    /\ \A i \in Iters : PageFetchPropagates(i)

\* The part of the decoded payload each operation returns.
Returned(name, payload) ==
    CASE name \in {"profile_info", "transfer"} -> payload
      [] name = "commission_info" -> payload.commission
      [] name = "commission_quote" -> payload.qwCommission.amount

\* C4, amended: an errorCode text makes the operation fail with a domain
\* error that contains the code; on a success text profile_info and transfer
\* return the decoded payload unchanged, commission_info returns its
\* commission member, commission_quote its qwCommission.amount member, and a
\* page fetch yields the page's entries unchanged and in order.
C4_Propagation ==
    /\ opc = "done" =>
         /\ (IsErrorText(orsp) => IsDomainError(ores, CodeOf(orsp)))
         /\ (IsSuccessText(op.name, orsp) =>
               ores = Ok(Returned(op.name, Unwrap(orsp.v).members)))
    /\ \A i \in Iters : PageFetchPropagates(i)

C4_Witness ==
    /\ opc = "done"
    /\ op.name = "commission_info"
    /\ IsErrorText(orsp)
    /\ CodeOf(orsp) = "LIMIT_EXCEEDED"
    /\ ~ores.ok
    /\ \E i \in Iters : served[i] # <<>> /\ IsErrorText(served[i][Len(served[i])])

\* C5: a failed page fetch is the last one: no request follows it, the stream
\* has ended, and it has yielded the entries of the pages before, then one
\* error item, and nothing else.
C5_FailureEnds ==
    \A k \in 1..Len(served["a"]) :
        ~IsPage(served["a"][k]) =>
            /\ k = Len(served["a"])
            /\ Len(requests["a"]) = k
            /\ hpc["a"] = "done"
            /\ Len(out["a"]) = Len(Entries(SubSeq(served["a"], 1, k - 1))) + 1
            /\ SubSeq(out["a"], 1, Len(out["a"]) - 1)
                  = Items(Entries(SubSeq(served["a"], 1, k - 1)))
            /\ ~out["a"][Len(out["a"])].ok

C5_Witness ==
    /\ Len(served["a"]) = 3
    /\ served["a"][3] = Ok(NotJson)
    /\ out["a"] = Items(<<3, 2, 1>>) \o <<Err(SyntaxError)>>
    /\ hpc["a"] = "done"

\* C6: once the consumer has dropped a stream, no step adds a Transport.call
\* for it.
C6_NoCallAfterDrop ==
    [][\A i \in Iters : dropped[i] => requests'[i] = requests[i]]_vars

\* Dropped after the last entry of a page that carried a cursor.
C6_Witness ==
    /\ dropped["a"]
    /\ hpc["a"] = "dropped"
    /\ IsSome(next_txn["a"])
    /\ history["a"] = <<>>
    /\ Len(served["a"]) = 2
    /\ Len(requests["a"]) = 2

\* C7: an operation that has been invoked has made exactly one Transport.call,
\* while it waits and after it has returned, whatever it returned.
C7_OneCall ==
    /\ opc \in {"await", "done"} => ocalls = 1
    /\ opc = "idle" => ocalls = 0

C7_Witness ==
    /\ opc = "done"
    /\ op.name = "transfer"
    /\ orsp = Err(TransportError)
    /\ ~ores.ok
    /\ ocalls = 1
    /\ nops = 2

\* The id member of the body of the transfer in progress.
SentId == Unwrap(Unwrap(oreq.body).id)

\* C8 as stated: without an id, transfer sends the decimal text of the clock
\* in milliseconds times 1000; with an id, the decimal text of the id.
C8_Milliseconds ==
    (opc # "idle" /\ op.name = "transfer") =>
        SentId = IF IsSome(op.id) THEN DecStr(Unwrap(op.id))
                 ELSE DecStr(otime * 1000)

\* C8, amended: without an id, transfer sends the decimal text of the clock
\* in whole seconds times 1000, so two such calls in the same second (and so
\* in the same millisecond) send the same id; with an id, the decimal text of
\* the id.
C8_Seconds ==
    (opc # "idle" /\ op.name = "transfer") =>
        /\ SentId = IF IsSome(op.id) THEN DecStr(Unwrap(op.id))
                    ELSE DecStr((otime \div 1000) * 1000)
        /\ (op.id = None /\ otime \in {1000, 1999} => SentId = <<"1", "0", "0", "0">>)
        /\ (op.id = Some(7) => SentId = <<"7">>)
        /\ \A r \in prev :
             (r.id = None /\ op.id = None /\ r.time \div 1000 = otime \div 1000)
                => r.sent = Some(SentId)

C8_Witness ==
    /\ opc = "await"
    /\ op.name = "transfer"
    /\ op.id = None
    /\ otime = 1999
    /\ \E r \in prev : r.id = None /\ r.time = 1000 /\ r.sent = Some(SentId)

\* C9: in every stream of the client, however the streams and the operations
\* interleave, the first request carries no cursor and every later request
\* carries the cursor of the page that same stream received just before.
C9_OwnCursor ==
    \A i \in Iters : \A n \in 1..Len(requests[i]) : FollowsCursor(i, n)

\* Stream a has asked for its second page with its own cursor while stream b
\* holds another cursor, and an operation has run in between.
C9_Witness ==
    /\ Len(requests["a"]) = 2
    /\ requests["a"][2].nextTxnId = <<"5">>
    /\ hpc["a"] = "await"
    /\ hpc["b"] = "yield"
    /\ IsSome(next_txn["b"])
    /\ Unwrap(next_txn["b"]).id = 12
    /\ opc = "done"

\* C10: a further request follows a page only if the page carries both cursor
\* fields, and a stream does not end on such a page; a page with exactly one
\* of the fields is the last, its entries are yielded without an error item;
\* the stored cursor is empty while a request is pending.
C10_BothOrStop ==
    /\ \A n \in 1..Len(served["a"]) :
         IsPage(served["a"][n]) =>
            LET p == PageOf(served["a"][n]) IN
            /\ (Len(requests["a"]) > n => Both(p))
            /\ (Both(p) /\ hpc["a"] = "done" => n < Len(served["a"]))
            /\ (ExactlyOne(p) =>
                  /\ n = Len(served["a"])
                  /\ Len(requests["a"]) = n
                  /\ hpc["a"] \in {"yield", "done", "dropped"}
                  /\ \A k \in 1..Len(out["a"]) : out["a"][k].ok
                  /\ out["a"] \o Items(history["a"]) = Items(Entries(served["a"])))
    /\ (hpc["a"] = "await" => next_txn["a"] = None)

C10_Witness ==
    /\ hpc["a"] = "done"
    /\ Len(served["a"]) = 2
    /\ IsPage(served["a"][2])
    /\ ExactlyOne(PageOf(served["a"][2]))
    /\ out["a"] = Items(<<2, 1, 3>>)

RECURSIVE HistoryEntries(_)
\* The entries of a history, page after page.
HistoryEntries(h) ==
    IF h = <<>> THEN <<>> ELSE h[1].data \o HistoryEntries(Tail(h))

\* C11: the command prints each entry of the history exactly once and in
\* order, so what it has printed is always an initial part of the history's
\* entries, and all of them once it has returned Ok.
C11_PrintsEachOnce ==
    LET es == HistoryEntries(hist) IN
    /\ Len(printed) <= Len(es)
    /\ printed = SubSeq(es, 1, Len(printed))
    /\ (cpc = "exit" => printed = es)

\* What the command does instead: every round starts a new stream, so every
\* printed entry is the first entry of the history, and the command returns
\* Ok only when the history has no entry at all.
CliRepeatsFirst ==
    LET es == HistoryEntries(hist) IN
    /\ \A k \in 1..Len(printed) : es # <<>> /\ printed[k] = es[1]
    /\ (cpc = "exit" => es = <<>> /\ printed = <<>>)

====
